---- MODULE Spec2Model ----
(***************************************************************************)
(* Visitor counter Lambda (src/infra/lambda/lambda_function.py).           *)
(*                                                                         *)
(* One DynamoDB table holds at most one item per key; lambda_handler reads *)
(* the item with id "visitor_count", adds one to its count, writes the     *)
(* whole item back and returns an API Gateway response.  Invocations of    *)
(* the handler may run concurrently; the two store calls are the points at *)
(* which they interleave.                                                  *)
(*                                                                         *)
(* Python values are records [type, val]; a Decimal's val is its value in  *)
(* units of 1/Scale.  A raised exception is the value Raise(msg).          *)
(* Locals of an invocation (event, response, current_count, new_count) and  *)
(* its returned response are partial functions: an unbound local is not in *)
(* the domain.                                                             *)
(***************************************************************************)
EXTENDS Integers, Sequences, FiniteSets, TLC

\* ---- bounds of the model ----
NInv == 2          \* invocations of lambda_handler
MaxTime == 1       \* last tick of the clock
Scale == 10        \* Decimal resolution: units per 1
TicksPerSecond == 2
MaxUnits == 15     \* largest |count| (in 1/Scale) of a pre-existing item

Invs == 1..NInv
Methods == {"GET", "POST", "OPTIONS"}

VARIABLES
  table,          \* the DynamoDB table: a set of items, one per id
  storeUp,        \* whether the store answers calls
  now,            \* the clock datetime.utcnow() reads
  pc,             \* position of each invocation in lambda_handler
  event,          \* event['httpMethod'] of each invocation
  response,       \* result of table.get_item
  current_count,
  new_count,
  resp,           \* the dict lambda_handler returned
  calls,          \* history: the calls each invocation made, with outcome
  writeLog,       \* history: the puts that landed, in order, with their item
  returned        \* history: invocations in the order they returned

vars == <<table, storeUp, now, pc, event, response, current_count, new_count,
          resp, calls, writeLog, returned>>

\* ---- Python values ----
PyInt(n) == [type |-> "int", val |-> n]
PyFloat(u) == [type |-> "float", val |-> u]
PyStr(s) == [type |-> "str", val |-> s]
Dec(u) == [type |-> "Decimal", val |-> u]
Raise(msg) == [type |-> "exception", val |-> msg]
IsRaise(v) == v.type = "exception"

\* int(x): truncation toward zero for a Decimal, ValueError for a non-numeric str
TruncUnits(u) == IF u >= 0 THEN u \div Scale ELSE -((-u) \div Scale)
int(x) ==
  CASE x.type = "int" -> x
    [] x.type = "Decimal" -> PyInt(TruncUnits(x.val))
    [] x.type = "float" -> PyInt(TruncUnits(x.val))
    [] OTHER -> Raise("ValueError")

\* float(x) of a Decimal
float(x) == PyFloat(x.val)

\* Decimal % 1: the remainder has the sign of the dividend
DecMod1(u) == u - Scale * TruncUnits(u)

\* a decimal_default that always answers a float
decimal_default_float(obj) ==
  IF obj.type = "Decimal" THEN float(obj) ELSE Raise("TypeError")

decimal_default(obj) ==
  IF obj.type = "Decimal"
    THEN IF DecMod1(obj.val) = 0 THEN int(obj) ELSE float(obj)
    ELSE Raise("TypeError")

\* json.dumps of one value with default=decimal_default: native types are
\* encoded directly, anything else goes through the default hook once
JsonNative(v) ==
  CASE v.type = "int" -> [json |-> "integer", val |-> v.val]
    [] v.type = "float" -> [json |-> "real", val |-> v.val]
    [] v.type = "str" -> [json |-> "string", val |-> v.val]
IsNative(v) == v.type \in {"int", "float", "str"}
JsonEncode(v) ==
  IF IsNative(v) THEN JsonNative(v)
  ELSE LET d == decimal_default(v) IN
       IF IsRaise(d) THEN [json |-> "error", val |-> d.val] ELSE JsonNative(d)

\* datetime.utcnow().isoformat() and int(datetime.utcnow().timestamp())
isoformat(t) == PyStr("T" \o ToString(t))
timestamp(t) == PyInt(t \div TicksPerSecond)

\* what the store keeps for a value put into it: numbers come back as Decimal
Stored(v) == IF v.type = "int" THEN Dec(v.val * Scale) ELSE v

\* ---- the table ----
Key == "visitor_count"
get_item(tbl, id) == {it \in tbl : it.id = id}
\* an update that adds one to the stored count instead of writing the item's
put_item_add(tbl, item) ==
  {it \in tbl : it.id # item.id}
    \cup {IF get_item(tbl, item.id) = {} THEN item
          ELSE [item EXCEPT !.count =
                  Dec((CHOOSE it \in get_item(tbl, item.id) : TRUE).count.val
                      + Scale)]}

\* an update of the count attribute alone, the other attributes kept
put_item_merge(tbl, item) ==
  {it \in tbl : it.id # item.id}
    \cup {IF get_item(tbl, item.id) = {} THEN item
          ELSE [(CHOOSE it \in get_item(tbl, item.id) : TRUE)
                  EXCEPT !.count = item.count]}

put_item(tbl, item) == {it \in tbl : it.id # item.id} \cup {item}

Item(count, t) ==
  [id |-> Key,
   count |-> Stored(count),
   last_updated |-> Stored(isoformat(t)),
   timestamp |-> Stored(timestamp(t))]

\* ---- responses ----
ACAO == "Access-Control-Allow-Origin"
ACAH == "Access-Control-Allow-Headers"
ACAM == "Access-Control-Allow-Methods"
CT == "Content-Type"

PreflightResponse ==
  [statusCode |-> 200,
   headers |-> (ACAO :> "*") @@ (ACAH :> "Content-Type")
               @@ (ACAM :> "GET, POST, OPTIONS"),
   body |-> [message |-> JsonEncode(PyStr("CORS preflight"))]]

SuccessResponse(count, t) ==
  [statusCode |-> 200,
   headers |-> (ACAO :> "*") @@ (ACAH :> "Content-Type")
               @@ (ACAM :> "GET, POST, OPTIONS") @@ (CT :> "application/json"),
   body |-> [visitor_count |-> JsonEncode(count),
             timestamp |-> JsonEncode(isoformat(t)),
             status |-> JsonEncode(PyStr("success"))]]

\* an error response without the CORS header
ErrorResponseNoCors(msg) ==
  [statusCode |-> 500,
   headers |-> (CT :> "application/json"),
   body |-> [error |-> JsonEncode(PyStr("Internal server error")),
             message |-> JsonEncode(PyStr(msg)),
             status |-> JsonEncode(PyStr("error"))]]

ErrorResponse(msg) ==
  [statusCode |-> 500,
   headers |-> (ACAO :> "*") @@ (CT :> "application/json"),
   body |-> [error |-> JsonEncode(PyStr("Internal server error")),
             message |-> JsonEncode(PyStr(msg)),
             status |-> JsonEncode(PyStr("error"))]]

\* ---- bookkeeping ----
Bind(f, i, v) == (i :> v) @@ f
Call(op, ok) == [op |-> op, ok |-> ok]
Log(i, cs) == [calls EXCEPT ![i] = @ \o cs]

\* return r from invocation i
Return(i, r) ==
  /\ resp' = Bind(resp, i, r)
  /\ pc' = [pc EXCEPT ![i] = "done"]
  /\ returned' = Append(returned, i)

\* ---- initial state: nothing invoked, the table empty ----
Init ==
  /\ table = {}
  /\ storeUp = TRUE
  /\ now = 0
  /\ pc = [i \in Invs |-> "init"]
  /\ event = <<>>
  /\ response = <<>>
  /\ current_count = <<>>
  /\ new_count = <<>>
  /\ resp = <<>>
  /\ calls = [i \in Invs |-> <<>>]
  /\ writeLog = <<>>
  /\ returned = <<>>

\* ---- the environment ----
Tick ==
  /\ now < MaxTime
  /\ now' = now + 1
  /\ UNCHANGED <<table, storeUp, pc, event, response, current_count, new_count,
                 resp, calls, writeLog, returned>>

StoreDown ==
  /\ storeUp
  /\ storeUp' = FALSE
  /\ UNCHANGED <<table, now, pc, event, response, current_count, new_count,
                 resp, calls, writeLog, returned>>

StoreUp ==
  /\ ~storeUp
  /\ storeUp' = TRUE
  /\ UNCHANGED <<table, now, pc, event, response, current_count, new_count,
                 resp, calls, writeLog, returned>>

\* ---- lambda_handler ----
\* An invocation runs from one store call to the next in one step: the code
\* between two store calls touches only its own locals.

\* a preflight answered only after the item has been fetched
PreflightAfterGet(i) ==
  /\ pc[i] = "init"
  /\ event' = Bind(event, i, "OPTIONS")
  /\ calls' = Log(i, <<Call("get_item", storeUp)>>)
  /\ Return(i, IF storeUp THEN PreflightResponse
               ELSE ErrorResponse("get_item failed"))
  /\ UNCHANGED <<table, storeUp, now, response, current_count, new_count,
                 writeLog>>

\* lines 36-45: invoked with OPTIONS, the CORS preflight is returned before
\* any store call
Preflight(i) ==
  /\ pc[i] = "init"
  /\ event' = Bind(event, i, "OPTIONS")
  /\ Return(i, PreflightResponse)
  /\ UNCHANGED <<table, storeUp, now, response, current_count, new_count,
                 calls, writeLog>>

\* a count that starts from 1 when there is no item
CurrentCountFromOne(r) ==
  IF r # {} THEN int((CHOOSE it \in r : TRUE).count) ELSE PyInt(1)

\* lines 52-55: the count read, 0 when there is no item
CurrentCount(r) ==
  IF r # {} THEN int((CHOOSE it \in r : TRUE).count) ELSE PyInt(0)

\* an increment by two
NewCountByTwo(c) == PyInt(c.val + 2)

\* line 58
NewCount(c) == PyInt(c.val + 1)

\* lines 36, 48-58: invoked with another method, table.get_item answers, the
\* count is read and incremented
GetItem(i) ==
  /\ pc[i] = "init"
  /\ storeUp
  /\ ~IsRaise(CurrentCount(get_item(table, Key)))
  /\ \E m \in Methods \ {"OPTIONS"} : event' = Bind(event, i, m)
  /\ response' = Bind(response, i, get_item(table, Key))
  /\ current_count' = Bind(current_count, i, CurrentCount(get_item(table, Key)))
  /\ new_count' =
       Bind(new_count, i, NewCount(CurrentCount(get_item(table, Key))))
  /\ calls' = Log(i, <<Call("get_item", TRUE), Call("int", TRUE)>>)
  /\ pc' = [pc EXCEPT ![i] = "put"]
  /\ UNCHANGED <<table, storeUp, now, resp, writeLog, returned>>

\* a failed get_item taken for "no item": the handler goes on to write
GetItemFailSwallowed(i) ==
  /\ pc[i] = "init"
  /\ ~storeUp
  /\ \E m \in Methods \ {"OPTIONS"} : event' = Bind(event, i, m)
  /\ response' = Bind(response, i, {})
  /\ current_count' = Bind(current_count, i, PyInt(0))
  /\ new_count' = Bind(new_count, i, PyInt(1))
  /\ calls' = Log(i, <<Call("get_item", FALSE)>>)
  /\ pc' = [pc EXCEPT ![i] = "put"]
  /\ UNCHANGED <<table, storeUp, now, resp, writeLog, returned>>

\* lines 36, 48-50, 86-99: table.get_item raises
GetItemFail(i) ==
  /\ pc[i] = "init"
  /\ ~storeUp
  /\ \E m \in Methods \ {"OPTIONS"} : event' = Bind(event, i, m)
  /\ calls' = Log(i, <<Call("get_item", FALSE)>>)
  /\ Return(i, ErrorResponse("get_item failed"))
  /\ UNCHANGED <<table, storeUp, now, response, current_count, new_count,
                 writeLog>>

\* lines 36, 48-53, 86-99: table.get_item answers and int() of the stored
\* count raises
ParseCountFail(i) ==
  /\ pc[i] = "init"
  /\ storeUp
  /\ IsRaise(CurrentCount(get_item(table, Key)))
  /\ \E m \in Methods \ {"OPTIONS"} : event' = Bind(event, i, m)
  /\ response' = Bind(response, i, get_item(table, Key))
  /\ calls' = Log(i, <<Call("get_item", TRUE), Call("int", FALSE)>>)
  /\ Return(i, ErrorResponse(CurrentCount(get_item(table, Key)).val))
  /\ UNCHANGED <<table, storeUp, now, current_count, new_count, writeLog>>

\* lines 61-68: the unconditional overwrite of the item
PutItem(i) ==
  /\ pc[i] = "put"
  /\ storeUp
  /\ table' = put_item(table, Item(new_count[i], now))
  /\ writeLog' = Append(writeLog, [inv |-> i, item |-> Item(new_count[i], now)])
  /\ calls' = Log(i, <<Call("put_item", TRUE)>>)
  /\ pc' = [pc EXCEPT ![i] = "respond"]
  /\ UNCHANGED <<storeUp, now, event, response, current_count, new_count,
                 resp, returned>>

\* lines 61-68, 86-99: table.put_item raises
PutItemFail(i) ==
  /\ pc[i] = "put"
  /\ ~storeUp
  /\ calls' = Log(i, <<Call("put_item", FALSE)>>)
  /\ Return(i, ErrorResponse("put_item failed"))
  /\ UNCHANGED <<table, storeUp, now, event, response, current_count,
                 new_count, writeLog>>

\* a success response that reports the count read, not the count written
BuildResponseStale(i) ==
  /\ pc[i] = "respond"
  /\ calls' = Log(i, <<Call("json.dumps", TRUE)>>)
  /\ Return(i, SuccessResponse(current_count[i], now))
  /\ UNCHANGED <<table, storeUp, now, event, response, current_count,
                 new_count, writeLog>>

\* lines 71-84: the success response
BuildResponse(i) ==
  /\ pc[i] = "respond"
  /\ calls' = Log(i, <<Call("json.dumps", TRUE)>>)
  /\ Return(i, SuccessResponse(new_count[i], now))
  /\ UNCHANGED <<table, storeUp, now, event, response, current_count,
                 new_count, writeLog>>

\* lines 71-84, 86-99: building the success response raises (the try block
\* still covers it), after put_item has returned
BuildResponseFail(i) ==
  /\ pc[i] = "respond"
  /\ calls' = Log(i, <<Call("json.dumps", FALSE)>>)
  /\ Return(i, ErrorResponse("serialization failed"))
  /\ UNCHANGED <<table, storeUp, now, event, response, current_count,
                 new_count, writeLog>>

\* ---- concurrent invocations, from an empty table ----
Next ==
  \/ Tick
  \/ StoreDown
  \/ StoreUp
  \/ \E i \in Invs : Preflight(i)
  \/ \E i \in Invs : GetItem(i)
  \/ \E i \in Invs : GetItemFail(i)
  \/ \E i \in Invs : PutItem(i)
  \/ \E i \in Invs : PutItemFail(i)
  \/ \E i \in Invs : BuildResponse(i)
  \/ \E i \in Invs : BuildResponseFail(i)

Spec == Init /\ [][Next]_vars

\* ---- sequential invocations: one at a time, from an empty table ----
\* No invocation is in progress; invocations being interchangeable, the k-th
\* to be invoked is invocation k.
Quiet == \A j \in Invs : pc[j] \in {"init", "done"}
Turn(i) == Quiet /\ i = Len(returned) + 1

SeqPreflight(i) == Turn(i) /\ Preflight(i)
SeqGetItem(i) == Turn(i) /\ GetItem(i)
SeqGetItemFail(i) == Turn(i) /\ GetItemFail(i)
SeqParseCountFail(i) == Turn(i) /\ ParseCountFail(i)

SeqNext ==
  \/ Tick
  \/ StoreDown
  \/ StoreUp
  \/ \E i \in Invs : SeqPreflight(i)
  \/ \E i \in Invs : SeqGetItem(i)
  \/ \E i \in Invs : SeqGetItemFail(i)
  \/ \E i \in Invs : PutItem(i)
  \/ \E i \in Invs : PutItemFail(i)
  \/ \E i \in Invs : BuildResponse(i)
  \/ \E i \in Invs : BuildResponseFail(i)

SeqSpec == Init /\ [][SeqNext]_vars

\* ---- sequential invocations against a table some other writer filled ----
\* The item may hold any number as its count (DynamoDB hands numbers back as
\* Decimal), or a string that is no number.
StoredCounts ==
  {Dec(u) : u \in (-MaxUnits)..MaxUnits} \cup {PyStr("abc")}

StoredItems ==
  {[id |-> Key, count |-> c, last_updated |-> isoformat(0),
    timestamp |-> Stored(timestamp(0))] : c \in StoredCounts}

InitStored ==
  /\ table \in {{}} \cup {{it} : it \in StoredItems}
  /\ storeUp = TRUE
  /\ now = 0
  /\ pc = [i \in Invs |-> "init"]
  /\ event = <<>>
  /\ response = <<>>
  /\ current_count = <<>>
  /\ new_count = <<>>
  /\ resp = <<>>
  /\ calls = [i \in Invs |-> <<>>]
  /\ writeLog = <<>>
  /\ returned = <<>>

StoredNext ==
  \/ SeqNext
  \/ \E i \in Invs : SeqParseCountFail(i)

StoredSpec == InitStored /\ [][StoredNext]_vars

\* ======================= properties =======================
JInt(n) == [json |-> "integer", val |-> n]
JReal(u) == [json |-> "real", val |-> u]
JStr(str) == [json |-> "string", val |-> str]

Range(q) == {q[k] : k \in 1..Len(q)}
Writers == {w.inv : w \in Range(writeLog)}
Done(i) == pc[i] = "done"
IsOptions(i) == i \in DOMAIN event /\ event[i] = "OPTIONS"
\* the handler returned the success response / the error response
Success(i) ==
  /\ Done(i)
  /\ resp[i].statusCode = 200
  /\ DOMAIN resp[i].body = {"visitor_count", "timestamp", "status"}
  /\ resp[i].body.status = JStr("success")
Failed(i) ==
  /\ Done(i)
  /\ resp[i].statusCode = 500
  /\ DOMAIN resp[i].body = {"error", "message", "status"}
  /\ resp[i].body.status = JStr("error")
\* no call the invocation made raised
NoFault(i) == \A k \in 1..Len(calls[i]) : calls[i][k].ok
\* the stored counts (at most one), in units of 1/Scale
Counts == {it.count : it \in table}
CountUnits(tbl) == IF tbl = {} THEN 0 ELSE (CHOOSE it \in tbl : TRUE).count.val
Whole(u) == \E n \in (-(MaxUnits + NInv))..(MaxUnits + NInv) : u = n * Scale
\* the integer part of u/Scale
Trunc(u) ==
  CHOOSE n \in (-(MaxUnits + NInv))..(MaxUnits + NInv) :
    IF u >= 0 THEN n * Scale <= u /\ u < (n + 1) * Scale
    ELSE (n - 1) * Scale < u /\ u <= n * Scale

\* C1: in a sequential run from an empty table, as long as every invocation
\* so far was non-OPTIONS and met no failure, the k-th response is 200 with
\* visitor_count k, and once it has returned the table holds count k (so the
\* first response carries 1 and leaves a record with count 1).
C1_SequentialCounts ==
  \A k \in 1..Len(returned) :
    (\A j \in 1..k : ~IsOptions(returned[j]) /\ NoFault(returned[j])) =>
      /\ Success(returned[k])
      /\ resp[returned[k]].body.visitor_count = JInt(k)
      /\ (k = Len(returned) /\ Quiet) => Counts = {Dec(k * Scale)}

C1_Witness ==
  /\ Len(returned) = NInv
  /\ \A i \in Invs : ~IsOptions(i) /\ NoFault(i)
  /\ resp[returned[1]].body.visitor_count = JInt(1)
  /\ resp[returned[NInv]].body.visitor_count = JInt(NInv)

\* C2: an OPTIONS invocation returns 200 with the CORS preflight body, has
\* made no store call and has written nothing, whatever the table holds and
\* whether or not the store is up; the step that answers it leaves the table
\* as it was.
C2_PreflightState ==
  \A i \in Invs :
    IsOptions(i) =>
      /\ Done(i)
      /\ resp[i].statusCode = 200
      /\ resp[i].body = [message |-> JStr("CORS preflight")]
      /\ calls[i] = <<>>
      /\ i \notin Writers

C2_PreflightStep ==
  \A i \in Invs : (~IsOptions(i) /\ IsOptions(i)') => table' = table

\* C2: the preflight answer in every state, and the frame of its step
C2_Preflight == [](C2_PreflightState) /\ [][C2_PreflightStep]_vars

C2_Witness ==
  \E i \in Invs :
    /\ IsOptions(i) /\ Done(i)
    /\ returned[Len(returned)] = i
    /\ ~storeUp
    /\ table # {}

\* C3: an invocation whose get_item raised has returned 500 with body status
\* "error", and made no further call: no put_item was attempted.
C3_ReadFailure ==
  \A i \in Invs :
    (calls[i] # <<>> /\ calls[i][1] = Call("get_item", FALSE)) =>
      /\ Failed(i)
      /\ calls[i] = <<Call("get_item", FALSE)>>
      /\ i \notin Writers

C3_Witness ==
  \E i \in Invs :
    /\ calls[i] = <<Call("get_item", FALSE)>>
    /\ Failed(i)
    /\ table # {}

\* C4: two invocations that both read count N both return 200 with
\* visitor_count N+1, and when one of them made the latest write the table
\* holds N+1: their two writes advanced the count by one.
C4_LostUpdate ==
  \A i, j \in Invs :
    (i # j /\ Success(i) /\ Success(j) /\ current_count[i] = current_count[j]) =>
      /\ resp[i].body.visitor_count = JInt(current_count[i].val + 1)
      /\ resp[j].body.visitor_count = resp[i].body.visitor_count
      /\ writeLog[Len(writeLog)].inv \in {i, j} =>
           Counts = {Dec((current_count[i].val + 1) * Scale)}

C4_Witness ==
  \E i, j \in Invs :
    /\ i # j /\ Success(i) /\ Success(j)
    /\ ~IsOptions(i) /\ ~IsOptions(j)
    /\ current_count[i] = current_count[j]
    /\ resp[i].body.visitor_count = resp[j].body.visitor_count
    /\ {i, j} \subseteq Writers
    /\ Len(writeLog) = 2
    /\ Counts = {Dec((current_count[i].val + 1) * Scale)}

\* C5: in a sequential run with failing and OPTIONS invocations mixed in,
\* the stored count is a non-negative integer; a successful non-OPTIONS
\* invocation has written; two successful invocations in a row with the same
\* request report N and N+1; the count never decreases, and every write
\* replaces the table's record by a whole new item whose count is one more
\* than the count stored before (0 when there was none).
C5_State ==
  /\ \A c \in Counts : c.type = "Decimal" /\ c.val >= 0 /\ Whole(c.val)
  /\ Cardinality(table) <= 1
  /\ \A i \in Invs : Success(i) => ~IsOptions(i) /\ i \in Writers
  /\ \A k \in 1..(Len(returned) - 1) :
       (/\ Success(returned[k]) /\ Success(returned[k + 1])
        /\ event[returned[k]] = event[returned[k + 1]]) =>
         \E n \in 1..NInv :
           /\ resp[returned[k]].body.visitor_count = JInt(n)
           /\ resp[returned[k + 1]].body.visitor_count = JInt(n + 1)

C5_Step ==
  /\ CountUnits(table') >= CountUnits(table)
  /\ (table' # table) <=> (writeLog' # writeLog)
  /\ (writeLog' # writeLog) =>
       table' = {[id |-> Key,
                  count |-> Dec(CountUnits(table) + Scale),
                  last_updated |-> isoformat(now),
                  timestamp |-> Dec((now \div TicksPerSecond) * Scale)]}

\* C5: the sequential counter in every state, and the effect of every step
C5_SequentialIncrement == [](C5_State) /\ [][C5_Step]_vars

C5_Witness ==
  /\ Len(returned) = NInv
  /\ Success(returned[NInv - 1]) /\ Success(returned[NInv])
  /\ event[returned[NInv - 1]] = event[returned[NInv]]
  /\ resp[returned[NInv]].body.visitor_count = JInt(NInv)
  /\ now > 0

\* C6: every response the handler returned carries the header
\* Access-Control-Allow-Origin with value *.
C6_CorsHeader ==
  \A i \in DOMAIN resp :
    /\ ACAO \in DOMAIN resp[i].headers
    /\ resp[i].headers[ACAO] = "*"

C6_Witness ==
  \E i, j \in DOMAIN resp :
    /\ Failed(i)
    /\ resp[j].statusCode = 200
    /\ resp[i].headers[ACAO] = "*"

\* C7 as stated: a stored whole-number count is the integer in the output, a
\* stored fractional count is the float in the output.
C7_StoredCountInOutput ==
  \A i \in Invs :
    (Success(i) /\ response[i] # {}) =>
      \A it \in response[i] :
        resp[i].body.visitor_count =
          IF Whole(it.count.val) THEN JInt(it.count.val \div Scale)
          ELSE JReal(it.count.val)

\* C7 amended: decimal_default, as json.dumps applies it, turns a whole-number
\* Decimal into the integer and a fractional Decimal into the float; the
\* handler never hands it the stored count: it takes int() of the count, so
\* the output visitor_count is the integer part of the stored count plus one.
C7_DecimalCoercion ==
  /\ \A c \in Counts :
       c.type = "Decimal" =>
         JsonEncode(c) = IF Whole(c.val) THEN JInt(Trunc(c.val))
                         ELSE JReal(c.val)
  /\ \A i \in Invs :
       (Success(i) /\ response[i] # {}) =>
         \A it \in response[i] :
           resp[i].body.visitor_count = JInt(Trunc(it.count.val) + 1)

C7_Witness ==
  \E i \in Invs :
    /\ Success(i)
    /\ \E it \in response[i] :
         /\ ~Whole(it.count.val)
         /\ it.count.val > Scale
         /\ resp[i].body.visitor_count = JInt(Trunc(it.count.val) + 1)

\* C8: an invocation that returned the error response has not advanced the
\* counter: none of the writes that landed is its own.
C8_NoPartialSuccess ==
  \A i \in Invs : Failed(i) => i \notin Writers

\* C9: an invocation that returned the success response has completed its
\* own put_item before, and its visitor_count is the count it wrote, which
\* is the count it read plus one.
C9_SuccessAfterWrite ==
  \A i \in Invs :
    Success(i) =>
      /\ Call("put_item", TRUE) \in Range(calls[i])
      /\ resp[i].body.visitor_count = JInt(current_count[i].val + 1)
      /\ \E w \in Range(writeLog) :
           /\ w.inv = i
           /\ w.item.count = Dec((current_count[i].val + 1) * Scale)

C9_Witness ==
  \E i, j \in Invs :
    /\ i # j /\ Success(i) /\ Success(j)
    /\ writeLog[1].inv = i /\ writeLog[2].inv = j
    /\ returned[1] = j

====
